---- MODULE Spec2Model ----
(***************************************************************************)
(* Model of src/main.js: the playback scheduler runAll (a bounded queue of *)
(* pre-forked frame workers released one at a time, with compensating      *)
(* pacing), the frame workers written by writeFrame, the stderr pipe       *)
(* between each worker and the console, and readFrames (the sort of the    *)
(* file names, the per-file decoding tasks and their aggregation).         *)
(***************************************************************************)
EXTENDS Integers, Sequences, FiniteSets, TLC

\* ---------------------------------------------------------------- bounds
\* Largest number of frames handed to runAll.
MaxFrames == 12
\* Runs of at most this many frames draw every worker's duration freely;
\* longer runs use one duration for all their workers.
MaxTimedFrames == 3
\* Largest number of 'data' events one worker's stack trace arrives in.
MaxChunks == 2
\* A chunk stays in a worker's stderr pipe while at most this many later
\* frames are released.
MaxLag == 1

\* Largest width and height, in pixels, of a raster file in frames/.
MaxWidth == 5
MaxHeight == 3
\* Largest number of files in frames/.
MaxFiles == 3
\* Largest number of rows and of columns of a frame handed to writeFrame.
MaxRows == 2
MaxCols == 2

\* ------------------------------------------------------ program constants
\* Math.min(10, frameNames.length)
PoolCap == 10
\* setTimeout(() => res(), 300)
WarmupMillis == 300

\* runAll(frameNames, 20)
CallFps == 20

\* fps values runAll is called with (20 in main.js, 30 in the older copy,
\* 10 as the slowest cadence considered).
FpsSet == {10, CallFps, 30}
\* Wall-clock milliseconds a released worker may take until its exit is seen.
Durations == {40, 150}
\* Exit codes handed to the 'exit' listener (0 normal, 1 uncaught exception).
ExitCodes == {0, 1}

VARIABLES
    frameCount,          \* frameNames.length
    fps,                 \* runAll's fps argument
    runDurations,        \* durations the workers of this run may take
    runChunks,           \* 'data' events the stack trace of each worker of this run arrives in
    pc,                  \* where runAll is: entry, warmup, awaitExit, sleep, done, thrown, launchFailed
    i,                   \* the for loop's index
    queueSize,           \* const queueSize
    processQueue,        \* const processQueue (frame index of each forked child)
    child,               \* const child of the current iteration (-1: none yet)
    start,               \* const start of the current iteration
    end,                 \* const end of the last exit handler
    now,                 \* new Date().getTime()
    millisBetweenFrames, \* const millisBetweenFrames
    frameTimes,          \* const frameTimes
    initRunAllTime,      \* const initRunAllTime
    totalTime,           \* the returned totalTime (-1 until runAll returns)
    timerDelay,          \* delay of the pending setTimeout
    worker,              \* per frame: none, idle, started, dead, exited
    pending,             \* per frame: chunks written to stderr, not yet read by the parent
    onceArmed,           \* per frame: the once('data') listener is registered and has not run
    piped,               \* per frame: child.stderr.pipe(process.stderr) is in place
    clears,              \* per frame: console.clear() calls made by that frame's listener
    console,             \* what the console shows: the frames with output on it since the last clear
    sent,                \* frames sent 'start', in order
    spawned,             \* frames forked, in order
    warmups,             \* warm-up timers that have fired
    lastCode,            \* the code argument of the latest exit listener call (-1: none yet)
    forkFails,           \* the frame whose fork() throws in this run (-1: every fork succeeds)
    hangs,               \* the frame whose worker never terminates in this run (-1: every worker does)
    listening,           \* frames whose child has an 'exit' listener registered
    disk,                \* the directory frames/: file name -> bytes of the file
    content,             \* what readdir("frames") resolves to, in enumeration order
    rpc,                 \* where readFrames is: readdir, reading, hung, returned
    files,               \* const files: content after the sort
    fileContents,        \* the result array of Promise.all, "pending" where the task has not resolved
    settled,             \* positions of files in the order their tasks resolved
    frames,              \* what readFrames returns
    wpc,                 \* where writeFrame and its worker are: call, written, traced
    wfFrame,             \* writeFrame's frame argument
    wfIndex,             \* writeFrame's index argument
    frameData,           \* the worker program writeFrame writes
    stackTrace           \* the "at ..." lines the worker prints when it is started

vars == << frameCount, fps, runDurations, runChunks, pc, i, queueSize, processQueue, child,
           start, end, now, millisBetweenFrames, frameTimes, initRunAllTime,
           totalTime, timerDelay, worker, pending, onceArmed, piped, clears,
           console, sent, spawned, warmups, lastCode, forkFails, hangs, listening,
           disk, content, rpc, files, fileContents, settled, frames,
           wpc, wfFrame, wfIndex, frameData, stackTrace >>

runVars == << frameCount, fps, runDurations, runChunks, pc, i, queueSize, processQueue,
              child, start, end, now, millisBetweenFrames, frameTimes, initRunAllTime,
              totalTime, timerDelay, worker, pending, onceArmed, piped, clears,
              console, sent, spawned, warmups, lastCode, forkFails, hangs, listening >>

readVars == << disk, content, rpc, files, fileContents, settled, frames >>

writeVars == << wpc, wfFrame, wfIndex, frameData, stackTrace >>

Frames == 0 .. (frameCount - 1)

Min(a, b) == IF a < b THEN a ELSE b
Max(a, b) == IF a > b THEN a ELSE b

Last(s) == s[Len(s)]

\* <<a, a+1, ..., b-1>>
Range(a, b) == [k \in 1 .. Max(b - a, 0) |-> a + k - 1]

\* ------------------------------------------------------------- pure parts

QueueSizeNoMin(n) == PoolCap

\* Math.min(10, frameNames.length)
QueueSize(n) == Min(PoolCap, n)

\* Math.round((1 / fps) * 1000): the nearest integer, halves rounded up
MillisBetweenFrames(f) == (2 * 1000 + f) \div (2 * f)

SleepFixed(interval, elapsed) == interval

\* Math.max(millisBetweenFrames - elapsedMillis, 0)
SleepMillis(interval, elapsed) == Max(interval - elapsed, 0)

PopChild(q) == q[Len(q)]

\* processQueue.shift(): the child taken
ShiftChild(q) == Head(q)

ExitReplenishesInclusive(code, k, cap, n) == k + cap <= n

ExitReplenishesShort(code, k, cap, n) == k + cap + 1 < n

ExitReplenishesOnSuccess(code, k, cap, n) == code = 0 /\ k + cap < n

\* if (i + queueSize < frameNames.length): the exit listener's test; its
\* code argument is not read
ExitReplenishes(code, k, cap, n) == k + cap < n

PushChildAfter(q, k, cap) == Append(q, k + cap + 1)

UnshiftChild(q, k, cap) == << k + cap >> \o q

\* processQueue.push(fork(frameNames[i + queueSize]))
PushChild(q, k, cap) == Append(q, k + cap)

UnshiftTime(ft, e) == << e >> \o ft

\* frameTimes.push(elapsedMillis)
PushTime(ft, e) == Append(ft, e)

OnFires(armed) == TRUE

\* stderr.once('data', ...): the listener runs only while it is registered
OnceFires(armed) == armed

LoopResumesEarly(p) == p \in {"sleep", "awaitExit"}

\* the loop resumes when the promise of the current iteration resolves, which
\* only the timer set by the exit listener does
LoopResumes(p) == p = "sleep"

OnNoChildSkip == "sleep"

\* if (!child) { throw new Error("Child pool empty") }: runAll rejects
OnNoChild == "thrown"

\* fork(`js-frames/${frameName}`) returns a child unless it throws
ForkOK(f) == f /= forkFails

ShiftRestTwo(q) == IF Len(q) >= 2 THEN Tail(Tail(q)) ELSE << >>

\* processQueue.shift(): what stays in the queue
ShiftRest(q) == Tail(q)

ListenLater(l, c) == l

\* child.on('exit', ...) runs in the same synchronous stretch as
\* child.send('start')
ListenAtSend(l, c) == l \cup {c}

ExitEmittedAnyway(w) == w \in {"started", "dead"}

\* the child's 'exit' event is emitted once the process has terminated
ExitEmitted(w) == w = "dead"

WriteThenClear(con, f) == {}

\* the once('data') listener is registered before pipe's: console.clear()
\* runs, then the chunk is written
ClearThenWrite(con, f) == {f}

\* chunks of worker f's stack trace the parent has read
Got(f) == IF worker[f] \in {"dead", "exited"} THEN runChunks - pending[f] ELSE 0

\* every chunk older than MaxLag releases has left its pipe
LagOK(k) == \A f \in Frames : f + MaxLag < k => pending[f] = 0

\* ------------------------------------------------- readFrames: pure parts

\* buffer.subarray(a, b), for 0 <= a <= b: the bytes a .. b-1 that exist
Subarray(buf, a, b) == SubSeq(buf, Min(a, Len(buf)) + 1, Min(b, Len(buf)))

\* res << 8: the shift is done on 32-bit two's complement integers
ShiftLeft8(res) ==
    LET low == res % 16777216
    IN  IF low >= 8388608 THEN (low - 16777216) * 256 ELSE low * 256

\* the for loop of littleEndianToInt from index k - 1 down to 0
RECURSIVE LittleEndianFrom(_, _, _)
LittleEndianFrom(bytes, k, res) ==
    IF k = 0 THEN res
    ELSE LittleEndianFrom(bytes, k - 1, ShiftLeft8(res) + bytes[k])

\* littleEndianToInt(bytes)
LittleEndianToInt(bytes) == LittleEndianFrom(bytes, Len(bytes), 0)

\* the four header reads
Header(buffer) ==
    [startingAddress |-> LittleEndianToInt(Subarray(buffer, 10, 10 + 4)),
     widthInPixels   |-> LittleEndianToInt(Subarray(buffer, 18, 18 + 4)),
     heightInPixels  |-> LittleEndianToInt(Subarray(buffer, 22, 22 + 4)),
     bpp             |-> LittleEndianToInt(Subarray(buffer, 28, 28 + 2))]

BytesPerPixelOfWord(hd) == hd.bpp \div 32

\* bpp / 8, exact for the depths the files of frames/ carry here (0 and 24)
BytesPerPixel(hd) == hd.bpp \div 8
\* bytesPerPixel * widthInPixels
DataBytesInRow(hd) == BytesPerPixel(hd) * hd.widthInPixels
\* dataBytesInRow % 4
PaddingBytesInRow(hd) == DataBytesInRow(hd) % 4
\* bytesPerPixel / 3
BytesPerChannel(hd) == BytesPerPixel(hd) \div 3

\* frame[pixelY][pixelX] = avg on a sparse array: rows and cells are created
\* on assignment, any integer is a key
SetCell(frame, y, x, avg) ==
    LET row == IF y \in DOMAIN frame THEN frame[y] ELSE << >>
    IN  (y :> ((x :> avg) @@ row)) @@ frame

\* array.length of a sparse array: one more than its largest index
ArrayLength(a) ==
    LET idx == {y \in DOMAIN a : y >= 0}
    IN  IF idx = {} THEN 0 ELSE (CHOOSE y \in idx : \A z \in idx : z <= y) + 1

\* [r, g, b]: the three channel values read at byteIndex
ChannelValue(buffer, hd, byteIndex, chIndex) ==
    LittleEndianToInt(Subarray(buffer,
                               byteIndex + BytesPerChannel(hd) * chIndex,
                               byteIndex + BytesPerChannel(hd) * (chIndex + 1)))

\* offsets of the buffer the three channel reads at byteIndex cover
ChannelOffsets(buffer, hd, byteIndex) ==
    {o \in byteIndex .. (byteIndex + 3 * BytesPerChannel(hd) - 1) : o < Len(buffer)}

\* The while loop from byteIndex on. An iteration that leaves byteIndex and
\* frame as they are repeats for ever: outcome "loops".
RECURSIVE Walk(_, _, _, _, _)
Walk(buffer, hd, byteIndex, frame, reads) ==
    IF ~(byteIndex < Len(buffer))
      THEN [outcome |-> "frame", frame |-> frame, reads |-> reads]
      ELSE
        LET rowBytes == DataBytesInRow(hd) + PaddingBytesInRow(hd)
            rel      == byteIndex - hd.startingAddress
            \* x % 0 is NaN and NaN < widthInPixels is false
            inPixel  == IF rowBytes = 0 THEN FALSE
                        ELSE ((rel % rowBytes) \div BytesPerPixel(hd)) < hd.widthInPixels
        IN  IF inPixel
              THEN LET pixelX == (rel % rowBytes) \div BytesPerPixel(hd)
                       pixelY == hd.heightInPixels - 1 - (rel \div rowBytes)
                       r      == ChannelValue(buffer, hd, byteIndex, 0)
                       g      == ChannelValue(buffer, hd, byteIndex, 1)
                       b      == ChannelValue(buffer, hd, byteIndex, 2)
                       avg    == (r + g + b) \div 3
                   IN  Walk(buffer, hd, byteIndex + BytesPerPixel(hd),
                            SetCell(frame, pixelY, pixelX, avg),
                            reads \cup ChannelOffsets(buffer, hd, byteIndex))
              ELSE IF PaddingBytesInRow(hd) = 0
                     THEN [outcome |-> "loops", frame |-> frame, reads |-> reads]
                     ELSE Walk(buffer, hd, byteIndex + PaddingBytesInRow(hd),
                               frame, reads)

\* the body of the per-file task after readFile: header reads, then the loop
Decode(buffer) ==
    Walk(buffer, Header(buffer), Header(buffer).startingAddress, << >>, {})

\* content.length.toString().length
RECURSIVE NumDigits(_)
NumDigits(n) == IF n < 10 THEN 1 ELSE 1 + NumDigits(n \div 10)

\* c.slice(a, b), for 0 <= a <= b
Slice(c, a, b) == SubSeq(c, Min(a, Len(c)) + 1, Min(b, Len(c)))

DecimalDigits == <<"0", "1", "2", "3", "4", "5", "6", "7", "8", "9">>

IsDigit(ch) == \E d \in 1 .. 10 : DecimalDigits[d] = ch

DigitValue(ch) == (CHOOSE d \in 1 .. 10 : DecimalDigits[d] = ch) - 1

\* parseInt(str) for a string without sign or blanks: the leading run of
\* decimal digits, NaN when there is none
RECURSIVE ParseDigits(_, _, _)
ParseDigits(str, k, acc) ==
    IF k > Len(str) \/ ~IsDigit(str[k]) THEN acc
    ELSE ParseDigits(str, k + 1, 10 * acc + DigitValue(str[k]))

ParseInt(str) ==
    IF str = << >> \/ ~IsDigit(str[1])
      THEN [nan |-> TRUE, value |-> 0]
      ELSE [nan |-> FALSE, value |-> ParseDigits(str, 1, 0)]

\* the comparator handed to sort; sort reads a NaN result as 0
CompareNames(c1, c2, digits) ==
    LET i1 == ParseInt(Slice(c1, 4, 4 + digits))
        i2 == ParseInt(Slice(c2, 4, 4 + digits))
    IN  IF i1.nan \/ i2.nan THEN 0 ELSE i1.value - i2.value

\* x put into the sorted sequence s behind every element that does not
\* compare greater than it (Array.prototype.sort is stable)
RECURSIVE InsertSorted(_, _, _)
InsertSorted(s, x, digits) ==
    IF s = << >> THEN << x >>
    ELSE IF CompareNames(Last(s), x, digits) > 0
           THEN Append(InsertSorted(SubSeq(s, 1, Len(s) - 1), x, digits), Last(s))
           ELSE Append(s, x)

RECURSIVE SortPrefix(_, _, _)
SortPrefix(c, k, digits) ==
    IF k = 0 THEN << >>
    ELSE InsertSorted(SortPrefix(c, k - 1, digits), c[k], digits)

\* content.sort((c1, c2) => ...)
SortContent(c) == SortPrefix(c, Len(c), NumDigits(Len(c)))

\* an entry of Promise.all's result array whose task has not resolved
PendingTask == [resolved |-> FALSE]

SettleInCompletionOrder(results, k, value) ==
    LET j == CHOOSE j \in 1 .. Len(results) :
                 /\ ~results[j].resolved
                 /\ \A m \in 1 .. (j - 1) : results[m].resolved
    IN  [results EXCEPT ![j] = value]

\* Promise.all: the value a task resolves with is stored at the task's index
Settle(results, k, value) == [results EXCEPT ![k] = value]

\* fileContents.map(c => c.frame)
FramesOf(results) == [k \in 1 .. Len(results) |-> results[k].frame]

\* --------------------------------------------- the files of frames/

\* Grey offsets that tell the pixels of one file from those of another.
Shades == {0, 100}
\* Values the filler bytes at the end of a scan line may have.
PadBytes == {0, 255}

\* n bytes of v, least significant first
LEBytes(v, n) == [m \in 1 .. n |-> (v \div (256 ^ (m - 1))) % 256]

Zeros(n) == [m \in 1 .. n |-> 0]

\* bytes of a scan line of w 24-bit pixels: the next multiple of 4
Stride(w) == ((3 * w + 3) \div 4) * 4

\* channel c of pixel x of scan line k in a file of shade p
Channel(p, k, x, c) == (p + 90 * k + 40 * x + 13 * c) % 256

\* The 54 header bytes of a 24-bit raster of w by h pixels: signature, file
\* size, reserved, pixel data offset, info header size, width, height,
\* planes, bits per pixel, and the fields readFrames does not read.
HeaderBytes(w, h) ==
    << 66, 77 >> \o LEBytes(54 + h * Stride(w), 4) \o Zeros(4) \o LEBytes(54, 4)
      \o LEBytes(40, 4) \o LEBytes(w, 4) \o LEBytes(h, 4) \o LEBytes(1, 2)
      \o LEBytes(24, 2) \o Zeros(24)

\* h scan lines, bottom line first, each filled up to Stride(w) with pad
PixelData(w, h, p, pad) ==
    [j \in 1 .. (h * Stride(w)) |->
        LET k == (j - 1) \div Stride(w)
            o == (j - 1) % Stride(w)
        IN  IF o < 3 * w THEN Channel(p, k, o \div 3, o % 3) ELSE pad]

RasterFile(w, h, p, pad) == HeaderBytes(w, h) \o PixelData(w, h, p, pad)

ValidRasters ==
    {RasterFile(w, h, p, pad) :
        w \in 1 .. MaxWidth, h \in 1 .. MaxHeight, p \in Shades, pad \in PadBytes}

\* Files cut off before their end: in the header or in the pixel data.
CutRasters ==
    UNION {{SubSeq(RasterFile(w, h, 0, 0), 1, n) :
                n \in 0 .. (54 + h * Stride(w) - 1)} :
            w \in 1 .. MaxWidth, h \in 1 .. MaxHeight}

\* Pixel data offsets other than the 54 of a plain file: inside the header,
\* one and three bytes into the pixel data, past the end of the file.
StartOffsets == {40, 55, 57, 200}

\* One-line files whose header names another pixel data offset.
OffsetRasters ==
    {SubSeq(RasterFile(w, 1, 100, 255), 1, 10) \o LEBytes(a, 4)
        \o SubSeq(RasterFile(w, 1, 100, 255), 15, 54 + Stride(w)) :
        w \in 1 .. MaxWidth, a \in StartOffsets}

\* Sequence keys written into file names.
KeyPool == {1, 2, 3, 10}
\* Widths the keys are zero-padded to (0: not padded).
KeyWidths == {0, 5}

RECURSIVE DigitsOf(_)
DigitsOf(n) ==
    IF n < 10 THEN << DecimalDigits[n + 1] >>
    ELSE Append(DigitsOf(n \div 10), DecimalDigits[(n % 10) + 1])

PadKey(key, width) ==
    LET d == DigitsOf(key)
    IN  [m \in 1 .. Max(width - Len(d), 0) |-> "0"] \o d

\* "out_<key>.bmp"
FileName(key, width) ==
    << "o", "u", "t", "_" >> \o PadKey(key, width) \o << ".", "b", "m", "p" >>

\* the whole run of digits that follows the four-character prefix
KeyOf(name) == ParseInt(SubSeq(name, 5, Len(name))).value

\* Enumeration orders of the subsets of KeyPool with at most MaxFiles keys.
KeyOrders ==
    UNION {{s \in [1 .. n -> KeyPool] : \A a, b \in 1 .. n : a /= b => s[a] /= s[b]} :
            n \in 0 .. MaxFiles}

\* A directory of one-pixel files, the pixel of each telling its key.
Catalog(order, width) ==
    [content |-> [m \in 1 .. Len(order) |-> FileName(order[m], width)],
     disk    |-> [name \in {FileName(order[m], width) : m \in 1 .. Len(order)} |->
                     RasterFile(1, 1, 10 * KeyOf(name), 0)]]

\* A directory of one file.
OneFile(buffer) ==
    [content |-> << FileName(1, 0) >>,
     disk    |-> [name \in {FileName(1, 0)} |-> buffer]]

Directories ==
    {Catalog(order, width) : order \in KeyOrders, width \in KeyWidths}
      \cup {OneFile(buffer) : buffer \in ValidRasters \cup CutRasters \cup OffsetRasters}

\* ------------------------------------------------- writeFrame: pure parts

\* Grey levels of the frames handed to writeFrame: either side of 255 / 2.
Levels == {127, 128}
\* Frame indexes writeFrame is called with: the first and the last index of
\* a run of 300 for several error bodies, and the first after a whole cycle.
FrameIndexes == {0, 299, 300, 1199, 1200, 1499, 1500, 2099, 2100}

\* errors.length
ErrorBodies == 7
\* Math.floor(frameIndex / 300)
ErrorSpan == 300

\* the position in errors of getErrorBodyFunction(frameIndex)
GetErrorBodyFunction(frameIndex) == (frameIndex \div ErrorSpan) % ErrorBodies

\* Calls between the row function holding error body e and the point the
\* error is thrown at: body 4 throws inside an arrow function it calls, the
\* others throw in the row function itself.
ThrowDepth(e) == IF e = 4 THEN 1 ELSE 0

\* row.map(el => (el > (255 / 2)) ? '$$' : '__')
Markers(row) ==
    [x \in 1 .. ArrayLength(row) |-> IF 2 * row[x - 1] > 255 THEN "$$" ELSE "__"]

\* `${...join('')}__${i}`
FunctionName(row, r) == [cells |-> Markers(row), index |-> r]

\* The lines of frameData: the stackTraceLimit assignment, one function per
\* row (the first holds the error body, each other one calls the one before
\* it) and the 'message' listener calling the last function.
FrameData(frame, index) ==
    LET totalRows == ArrayLength(frame)
    IN  [stackTraceLimit |-> totalRows,
         functions |-> [r \in 1 .. totalRows |->
                          IF r = 1
                            THEN [name  |-> FunctionName(frame[0], 0),
                                  calls |-> FALSE,
                                  error |-> GetErrorBodyFunction(index)]
                            ELSE [name   |-> FunctionName(frame[r - 1], r - 1),
                                  calls  |-> TRUE,
                                  callee |-> FunctionName(frame[r - 2], r - 2)]],
         listener |-> FunctionName(frame[totalRows - 1], totalRows - 1)]

\* the function of the program that has the given name
FunctionNamed(program, name) ==
    program.functions[CHOOSE r \in 1 .. Len(program.functions) :
                          program.functions[r].name = name]

\* The call stack, innermost call first, when the function called name has
\* been called and the error is thrown.
RECURSIVE StackFrom(_, _)
StackFrom(program, name) ==
    LET fn == FunctionNamed(program, name)
    IN  IF fn.calls
          THEN Append(StackFrom(program, fn.callee), [kind |-> "row", name |-> name])
          ELSE [d \in 1 .. ThrowDepth(fn.error) |-> [kind |-> "anonymous"]]
                 \o << [kind |-> "row", name |-> name] >>

\* The "at ..." lines of the uncaught error: the innermost stackTraceLimit
\* calls of the stack, which ends in the listener and in emit.
StackTraceOf(program) ==
    LET stack == StackFrom(program, program.listener)
                   \o << [kind |-> "listener"], [kind |-> "emit"] >>
    IN  SubSeq(stack, 1, Min(program.stackTraceLimit, Len(stack)))

\* Frames of h rows by w columns over Levels.
FramesOfSize(h, w) == [0 .. (h - 1) -> [0 .. (w - 1) -> Levels]]

\* ------------------------------------------------------------------ Init

\* The state at the call of runAll, but for the fork that is to fail.
InitRun ==
    /\ frameCount \in 0 .. MaxFrames
    /\ fps \in IF frameCount <= MaxTimedFrames THEN FpsSet ELSE {CallFps}
    /\ runDurations \in IF frameCount <= MaxTimedFrames
                          THEN {Durations}
                          ELSE {{d} : d \in Durations}
    /\ runChunks \in 1 .. MaxChunks
    /\ pc = "entry"
    /\ i = 0
    /\ queueSize = 0
    /\ processQueue = << >>
    /\ child = -1
    /\ start = 0
    /\ end = 0
    /\ now = 0
    /\ millisBetweenFrames = 0
    /\ frameTimes = << >>
    /\ initRunAllTime = 0
    /\ totalTime = -1
    /\ timerDelay = 0
    /\ worker = [f \in Frames |-> "none"]
    /\ pending = [f \in Frames |-> 0]
    /\ onceArmed = [f \in Frames |-> FALSE]
    /\ piped = [f \in Frames |-> FALSE]
    /\ clears = [f \in Frames |-> 0]
    /\ console = {}
    /\ sent = << >>
    /\ spawned = << >>
    /\ warmups = 0
    /\ lastCode = -1
    /\ listening = {}

\* readFrames is not under way: an empty frames/ directory, nothing read.
IdleRead ==
    /\ disk = << >>
    /\ content = << >>
    /\ rpc = "readdir"
    /\ files = << >>
    /\ fileContents = << >>
    /\ settled = << >>
    /\ frames = << >>

\* writeFrame is not under way.
IdleWrite ==
    /\ wpc = "call"
    /\ wfFrame = << >>
    /\ wfIndex = 0
    /\ frameData = << >>
    /\ stackTrace = << >>

\* A run in which every fork succeeds.
Init ==
    /\ InitRun
    /\ forkFails = -1
    /\ hangs = -1
    /\ IdleRead
    /\ IdleWrite

\* A run in which the worker of one frame may never terminate.
StallInit ==
    /\ InitRun
    /\ forkFails = -1
    /\ hangs \in -1 .. (frameCount - 1)
    /\ IdleRead
    /\ IdleWrite

\* A run in which the fork of one frame may throw.
LaunchInit ==
    /\ InitRun
    /\ forkFails \in -1 .. (frameCount - 1)
    /\ hangs = -1
    /\ IdleRead
    /\ IdleWrite

\* --------------------------------------------------------------- actions

\* runAll up to its first await: fork the first queueSize workers, set the
\* warm-up timer.
RunAllStart ==
    /\ pc = "entry"
    /\ UNCHANGED listening
    /\ queueSize' = QueueSize(frameCount)
    /\ IF \A f \in 0 .. (queueSize' - 1) : ForkOK(f)
         THEN /\ processQueue' = Range(0, queueSize')
              /\ spawned' = Range(0, queueSize')
              /\ worker' = [f \in Frames |-> IF f < queueSize' THEN "idle" ELSE "none"]
              /\ timerDelay' = WarmupMillis
              /\ pc' = "warmup"
         ELSE \* fork throws inside slice(0, queueSize).map(forkProcess): the
              \* children forked before it stay, runAll rejects
              /\ spawned' = Range(0, forkFails)
              /\ worker' = [f \in Frames |-> IF f < forkFails THEN "idle" ELSE "none"]
              /\ pc' = "launchFailed"
              /\ UNCHANGED << processQueue, timerDelay >>
    /\ UNCHANGED << forkFails, hangs, readVars, writeVars >>
    /\ UNCHANGED << frameCount, fps, runDurations, runChunks, i, child, start, end, now,
                    millisBetweenFrames, frameTimes, initRunAllTime, totalTime,
                    pending, onceArmed, piped, clears, console, sent, warmups,
                    lastCode >>

\* The for loop from its test with index k, at the time now': either the body
\* up to the await (shift, listeners, send, exit listener), or the return.
LoopFrom(k) ==
    /\ i' = k
    /\ IF k < frameCount
         THEN /\ start' = now'
              /\ UNCHANGED totalTime
              /\ IF processQueue = << >>
                   THEN /\ pc' = OnNoChild
                        /\ UNCHANGED << processQueue, child, onceArmed, piped,
                                        sent, worker, listening >>
                   ELSE /\ child' = ShiftChild(processQueue)
                        /\ processQueue' = ShiftRest(processQueue)
                        /\ listening' = ListenAtSend(listening, child')
                        /\ onceArmed' = [onceArmed EXCEPT ![child'] = TRUE]
                        /\ piped' = [piped EXCEPT ![child'] = TRUE]
                        /\ sent' = Append(sent, child')
                        /\ worker' = [worker EXCEPT ![child'] = "started"]
                        /\ pc' = "awaitExit"
         ELSE /\ totalTime' = now' - initRunAllTime'
              /\ pc' = "done"
              /\ UNCHANGED << start, processQueue, child, onceArmed, piped,
                              sent, worker, listening >>

\* The warm-up timer fires; runAll continues to the first iteration.
WarmupElapsed ==
    /\ pc = "warmup"
    /\ now' = now + timerDelay
    /\ warmups' = warmups + 1
    /\ millisBetweenFrames' = MillisBetweenFrames(fps)
    /\ frameTimes' = << >>
    /\ initRunAllTime' = now'
    /\ LoopFrom(0)
    /\ UNCHANGED << forkFails, hangs, readVars, writeVars >>
    /\ UNCHANGED << frameCount, fps, runDurations, runChunks, queueSize, end, timerDelay,
                    pending, clears, console, spawned, lastCode >>

\* A started worker receives the message, runs its chain of row functions
\* into the fault, writes the stack trace to stderr and dies.
WorkerRun(f) ==
    /\ worker[f] = "started"
    /\ f /= hangs
    /\ UNCHANGED listening
    /\ worker' = [worker EXCEPT ![f] = "dead"]
    /\ pending' = [pending EXCEPT ![f] = runChunks]
    /\ UNCHANGED << forkFails, hangs, readVars, writeVars >>
    /\ UNCHANGED << frameCount, fps, runDurations, runChunks, pc, i, queueSize,
                    processQueue, child, start, end, now, millisBetweenFrames,
                    frameTimes, initRunAllTime, totalTime, timerDelay,
                    onceArmed, piped, clears, console, sent, spawned, warmups,
                    lastCode >>

\* A 'data' event of worker f's stderr in the parent: the once listener
\* (registered first) clears the console, then the pipe forwards the chunk.
Deliver(f) ==
    /\ pending[f] > 0
    /\ piped[f]
    /\ UNCHANGED listening
    /\ pending' = [pending EXCEPT ![f] = @ - 1]
    /\ IF OnceFires(onceArmed[f])
         THEN /\ clears' = [clears EXCEPT ![f] = @ + 1]
              /\ console' = ClearThenWrite(console, f)
         ELSE /\ UNCHANGED clears
              /\ console' = console \cup {f}
    /\ onceArmed' = [onceArmed EXCEPT ![f] = FALSE]
    /\ UNCHANGED << forkFails, hangs, readVars, writeVars >>
    /\ UNCHANGED << frameCount, fps, runDurations, runChunks, pc, i, queueSize,
                    processQueue, child, start, end, now, millisBetweenFrames,
                    frameTimes, initRunAllTime, totalTime, timerDelay, worker,
                    piped, sent, spawned, warmups, lastCode >>

\* The 'exit' listener of the current child, d milliseconds after its
\* release: replenish, record the elapsed time, set the pacing timer.
ExitHandler(code, d) ==
    /\ pc = "awaitExit"
    /\ ExitEmitted(worker[child])
    /\ now' = now + d
    /\ lastCode' = code
    /\ IF child \notin listening
         THEN \* an 'exit' emitted with no listener registered is lost
              /\ worker' = [worker EXCEPT ![child] = "exited"]
              /\ UNCHANGED << pc, processQueue, spawned, end, frameTimes, timerDelay >>
         ELSE IF ExitReplenishes(code, i, queueSize, frameCount) /\ ~ForkOK(i + queueSize)
         THEN \* fork throws inside the listener: nothing after it runs, no
              \* timer is set and the awaited promise never resolves
              /\ worker' = [worker EXCEPT ![child] = "exited"]
              /\ pc' = "launchFailed"
              /\ UNCHANGED << processQueue, spawned, end, frameTimes, timerDelay >>
         ELSE /\ IF ExitReplenishes(code, i, queueSize, frameCount)
                   THEN /\ processQueue' = PushChild(processQueue, i, queueSize)
                        /\ spawned' = Append(spawned, Last(processQueue'))
                        /\ worker' = [worker EXCEPT ![child] = "exited",
                                                    ![Last(processQueue')] = "idle"]
                   ELSE /\ worker' = [worker EXCEPT ![child] = "exited"]
                        /\ UNCHANGED << processQueue, spawned >>
              /\ end' = now'
              /\ frameTimes' = PushTime(frameTimes, end' - start)
              /\ timerDelay' = SleepMillis(millisBetweenFrames, end' - start)
              /\ pc' = "sleep"
    /\ UNCHANGED << forkFails, hangs, readVars, writeVars >>
    /\ UNCHANGED << frameCount, fps, runDurations, runChunks, i, queueSize, child, start,
                    millisBetweenFrames, initRunAllTime, totalTime, pending,
                    onceArmed, piped, clears, console, sent, warmups, listening >>

\* The pacing timer fires; the loop goes on with the next index or returns.
SleepElapsed ==
    /\ LoopResumes(pc)
    /\ i + 1 < frameCount => LagOK(i + 1)
    /\ now' = now + timerDelay
    /\ UNCHANGED initRunAllTime
    /\ LoopFrom(i + 1)
    /\ UNCHANGED << forkFails, hangs, readVars, writeVars >>
    /\ UNCHANGED << frameCount, fps, runDurations, runChunks, queueSize, end,
                    millisBetweenFrames, frameTimes, timerDelay,
                    pending, clears, console, spawned, warmups, lastCode >>

Next ==
    \/ RunAllStart
    \/ WarmupElapsed
    \/ \E f \in Frames : WorkerRun(f)
    \/ \E f \in Frames : Deliver(f)
    \/ \E code \in ExitCodes, d \in runDurations : ExitHandler(code, d)
    \/ SleepElapsed

Spec == Init /\ [][Next]_vars

\* Timers fire, a started worker runs into its fault and its exit is
\* reported, and a pipe holding data is read.
Fairness ==
    /\ WF_vars(RunAllStart)
    /\ WF_vars(WarmupElapsed)
    /\ WF_vars(SleepElapsed)
    /\ WF_vars(\E f \in Frames : WorkerRun(f))
    /\ WF_vars(\E f \in Frames : Deliver(f))
    /\ WF_vars(\E code \in ExitCodes, d \in runDurations : ExitHandler(code, d))

FairSpec == Spec /\ Fairness

\* Runs in which one fork may throw.
LaunchSpec == LaunchInit /\ [][Next]_vars

\* Runs in which one worker may never terminate.
StallSpec == StallInit /\ [][Next]_vars

\* The pool drained from outside between two releases, which no step of
\* runAll does: the forced dequeue on an empty pool.
ForcePoolEmpty ==
    /\ pc \in {"warmup", "sleep"}
    /\ processQueue /= << >>
    /\ processQueue' = << >>
    /\ UNCHANGED << frameCount, fps, runDurations, runChunks, pc, i, queueSize, child,
                    start, end, now, millisBetweenFrames, frameTimes, initRunAllTime,
                    totalTime, timerDelay, worker, pending, onceArmed, piped, clears,
                    console, sent, spawned, warmups, lastCode, forkFails,
                    hangs, listening, readVars, writeVars >>

ForcedNext ==
    \/ Next
    \/ ForcePoolEmpty

ForcedSpec == Init /\ [][ForcedNext]_vars

\* ---------------------------------------------------- readFrames: actions

\* The scheduler at rest while only readFrames or writeFrame is looked at.
IdleRun ==
    /\ InitRun
    /\ frameCount = 0
    /\ fps = CallFps
    /\ runChunks = 1
    /\ forkFails = -1
    /\ hangs = -1

\* readFrames is called on one of the directories.
ReadInit ==
    /\ IdleRun
    /\ IdleWrite
    /\ \E dir \in Directories :
          /\ disk = dir.disk
          /\ content = dir.content
    /\ rpc = "readdir"
    /\ files = << >>
    /\ fileContents = << >>
    /\ settled = << >>
    /\ frames = << >>

\* readdir resolves: the names are sorted and one task per file is started,
\* each up to its await readFile.
Readdir ==
    /\ rpc = "readdir"
    /\ files' = SortContent(content)
    /\ fileContents' = [k \in 1 .. Len(content) |-> PendingTask]
    /\ rpc' = "reading"
    /\ UNCHANGED << disk, content, settled, frames, runVars, writeVars >>

\* readFile of the k-th file resolves: its task decodes the buffer in one
\* go and resolves with the frame (the file and buffer fields of the value
\* are not read again). A decode that loops never gives the thread back.
ReadDone(k) ==
    /\ rpc = "reading"
    /\ k \in 1 .. Len(files)
    /\ \A m \in 1 .. Len(settled) : settled[m] /= k
    /\ LET decoded == Decode(disk[files[k]])
       IN  IF decoded.outcome = "loops"
             THEN /\ rpc' = "hung"
                  /\ UNCHANGED << fileContents, settled >>
             ELSE /\ fileContents' = Settle(fileContents, k,
                                            [resolved |-> TRUE, file |-> files[k],
                                             frame |-> decoded.frame])
                  /\ settled' = Append(settled, k)
                  /\ UNCHANGED rpc
    /\ UNCHANGED << disk, content, files, frames, runVars, writeVars >>

\* Every task has resolved: Promise.all resolves and readFrames returns.
ReadFramesReturn ==
    /\ rpc = "reading"
    /\ Len(settled) = Len(files)
    /\ frames' = FramesOf(fileContents)
    /\ rpc' = "returned"
    /\ UNCHANGED << disk, content, files, fileContents, settled, runVars, writeVars >>

ReadNext ==
    \/ Readdir
    \/ \E k \in 1 .. MaxFiles : ReadDone(k)
    \/ ReadFramesReturn

ReadSpec == ReadInit /\ [][ReadNext]_vars

\* ---------------------------------------------------- writeFrame: actions

\* writeFrame is called with a frame and an index.
WriteInit ==
    /\ IdleRun
    /\ IdleRead
    /\ wpc = "call"
    /\ wfFrame \in UNION {FramesOfSize(h, w) : h \in 1 .. MaxRows, w \in 1 .. MaxCols}
    /\ wfIndex \in FrameIndexes
    /\ frameData = << >>
    /\ stackTrace = << >>

\* writeFrame builds the program and writes it to js-frames/fr_<index>.js.
WriteFrame ==
    /\ wpc = "call"
    /\ frameData' = FrameData(wfFrame, wfIndex)
    /\ wpc' = "written"
    /\ UNCHANGED << wfFrame, wfIndex, stackTrace, runVars, readVars >>

\* The forked program gets the 'start' message: the listener calls the last
\* row function, the chain runs into the error, node prints the stack trace.
WorkerStart ==
    /\ wpc = "written"
    /\ stackTrace' = StackTraceOf(frameData)
    /\ wpc' = "traced"
    /\ UNCHANGED << wfFrame, wfIndex, frameData, runVars, readVars >>

WriteNext ==
    \/ WriteFrame
    \/ WorkerStart

WriteSpec == WriteInit /\ [][WriteNext]_vars

\* ------------------------------------------------------------ properties

\* The capacity the scheduler is to use for n frames.
Capacity == IF frameCount < 10 THEN frameCount ELSE 10

\* C1: start signals go out in strict index order 0,1,...: the k-th start
\* signal goes to the worker of frame k, no worker is skipped, reordered or
\* released twice, and when runAll returns every worker has had exactly one.
C1_StartOrder ==
    /\ \A k \in 1 .. Len(sent) : sent[k] = k - 1
    /\ \A f \in Frames : worker[f] \in {"started", "dead", "exited"}
                            <=> f < Len(sent)
    /\ pc = "done" => Len(sent) = frameCount

C1_Witness ==
    /\ pc = "done"
    /\ frameCount > PoolCap
    /\ Len(sent) = frameCount

\* C2: at most one worker is active at a time: every worker released before
\* the latest one has been seen to exit, and every forked worker that has not
\* been released sits idle in the queue.
C2_OneActive ==
    /\ Cardinality({f \in Frames : worker[f] \in {"started", "dead"}}) <= 1
    /\ \A k \in 1 .. Len(sent) - 1 : worker[sent[k]] = "exited"
    /\ \A f \in Frames : worker[f] = "idle"
                            <=> \E k \in 1 .. Len(processQueue) : processQueue[k] = f

C2_Witness ==
    /\ pc = "awaitExit"
    /\ i >= 1
    /\ Len(processQueue) >= 2
    /\ worker[child] = "started"

\* C3: when the worker of frame i exits and i + capacity < totalFrames, the
\* exit listener forks exactly the worker of frame i + capacity and appends
\* it at the tail of the queue, before the next release; otherwise it forks
\* none. Nothing is forked anywhere else after the initial fill.
C3_Replenish ==
    [][ /\ (pc = "awaitExit" /\ pc' = "sleep") =>
              IF i + Capacity < frameCount
                THEN /\ processQueue' = Append(processQueue, i + Capacity)
                     /\ spawned' = Append(spawned, i + Capacity)
                     /\ worker[i + Capacity] = "none"
                     /\ worker'[i + Capacity] = "idle"
                     /\ sent' = sent
                ELSE /\ processQueue' = processQueue
                     /\ spawned' = spawned
        /\ (spawned' /= spawned /\ pc /= "entry") => (pc = "awaitExit" /\ pc' = "sleep")
      ]_vars

C3_Witness ==
    /\ pc = "sleep"
    /\ i = 0
    /\ frameCount > PoolCap
    /\ processQueue = Range(1, PoolCap + 1)

\* C4: the pool never holds more than capacity workers, and it holds exactly
\* capacity workers at the release of every frame i with i + capacity <=
\* totalFrames.
C4_PoolSize ==
    /\ Len(processQueue) <= Capacity
    /\ pc = "warmup" => Len(processQueue) = Capacity
    /\ (pc = "sleep" /\ i + 1 < frameCount /\ i + 1 + Capacity <= frameCount)
          => Len(processQueue) = Capacity

C4_Witness ==
    /\ pc = "sleep"
    /\ i + 1 + PoolCap = frameCount
    /\ Len(processQueue) = PoolCap

\* C5: capacity = min(10, totalFrames); runAll forks exactly the workers of
\* frames 0..capacity-1 at once, in index order; no start signal is sent
\* before the 300 ms warm-up has elapsed, and the warm-up happens once.
C5_RunStart ==
    /\ pc /= "entry" => /\ queueSize = Capacity
                        /\ Len(spawned) >= Capacity
                        /\ \A k \in 1 .. Capacity : spawned[k] = k - 1
    /\ pc = "warmup" => /\ Len(spawned) = Capacity
                        /\ sent = << >>
                        /\ now = 0
                        /\ \A f \in Frames : worker[f] = IF f < Capacity THEN "idle" ELSE "none"
    /\ sent /= << >> => /\ initRunAllTime >= 300
                        /\ start >= 300
    /\ warmups = IF pc \in {"entry", "warmup"} THEN 0 ELSE 1

C5_Witness ==
    /\ pc = "awaitExit"
    /\ i = 0
    /\ frameCount > PoolCap
    /\ start = 300
    /\ warmups = 1

\* The frame interval for the run's fps: the integer nearest to 1000 / fps
\* (the quotient, or the next integer when the remainder is at least fps / 2).
Interval ==
    LET lo == 1000 \div fps
    IN  IF 2 * (1000 - lo * fps) >= fps THEN lo + 1 ELSE lo

\* The pause owed after a frame that took e milliseconds, for the interval t.
Pause(t, e) == IF e >= t THEN 0 ELSE t - e

\* C6: after frame i completes with elapsed time e_i the scheduler sleeps
\* exactly max(round(1000 / fps) - e_i, 0) and releases frame i+1 right after
\* that sleep; the sleep depends on e_i alone (fps 10: 40 ms gives 60 ms,
\* 150 ms gives 0 ms).
C6_Pacing ==
    pc \in {"awaitExit", "sleep", "done"} =>
        LET n == Len(frameTimes)
            last == IF n > 0 THEN frameTimes[n] ELSE 0
            t == Interval
        IN  /\ millisBetweenFrames = t
            /\ pc = "sleep" =>
                  /\ last = end - start
                  /\ timerDelay = Pause(t, last)
                  /\ (fps = 10 /\ last = 40) => timerDelay = 60
                  /\ (fps = 10 /\ last = 150) => timerDelay = 0
            /\ (pc = "awaitExit" /\ i >= 1) => start = end + Pause(t, frameTimes[i])

C6_Witness ==
    /\ fps = 10
    /\ pc = "awaitExit"
    /\ i = 2
    /\ frameTimes = << 150, 40 >>
    /\ start = end + 60
    /\ start = 300 + 150 + 0 + 40 + 60

\* C7: when every released worker exits, runAll returns, after exactly
\* totalFrames iterations, with totalFrames telemetry entries, entry k being
\* the elapsed time of frame k (recorded when frame k exits and never
\* changed), and the total duration of the run.
C7_Termination ==
    /\ <>(pc = "done")
    /\ [](pc = "done" => /\ i = frameCount
                         /\ Len(sent) = frameCount
                         /\ Len(frameTimes) = frameCount
                         /\ totalTime = now - initRunAllTime)
    /\ [][ /\ (pc = "awaitExit" /\ pc' = "sleep") =>
                 /\ child = i
                 /\ Len(frameTimes) = i
                 /\ frameTimes' = Append(frameTimes, now' - start)
           /\ \A k \in 1 .. Len(frameTimes) :
                 Len(frameTimes') >= k /\ frameTimes'[k] = frameTimes[k]
         ]_vars

C7_Witness ==
    /\ pc = "done"
    /\ frameCount = 3
    /\ frameTimes = << 150, 40, 150 >>
    /\ totalTime = 150 + 40 + 150 + Pause(Interval, 40)

\* C8: console.clear() runs exactly once per frame, at the first chunk read
\* from that frame's worker: not before the worker has produced output, and
\* not again for later chunks.
C8_ClearOnce ==
    \A f \in Frames :
        /\ clears[f] = IF Got(f) > 0 THEN 1 ELSE 0
        /\ clears[f] = 1 => worker[f] \in {"dead", "exited"}

C8_Witness ==
    \E f \in Frames : Got(f) >= 2 /\ clears[f] = 1 /\ pending[f] = 0

\* C9: once the worker of frame i+1 has been sent its start signal, no
\* further output of the worker of frame i (or of an earlier one) reaches
\* the console.
C9_NoLateOutput ==
    [][ \A f \in Frames : pending'[f] < pending[f] => f = sent[Len(sent)] ]_vars

\* C10: the releases, the forks and the number of telemetry entries are
\* fixed by the number of exits seen, whatever exit codes the workers
\* reported.
C10_ExitCodeIgnored ==
    pc \in {"awaitExit", "sleep", "done"} =>
        LET exits == Len(frameTimes) IN
        /\ exits = IF pc = "awaitExit" THEN i ELSE IF pc = "sleep" THEN i + 1 ELSE frameCount
        /\ sent = Range(0, IF pc = "awaitExit" THEN exits + 1 ELSE exits)
        /\ spawned = Range(0, Min(frameCount, Capacity + exits))

C10_Witness ==
    /\ pc = "sleep"
    /\ lastCode = 1
    /\ i = 0
    /\ frameCount > PoolCap
    /\ spawned = Range(0, PoolCap + 1)
    /\ Len(frameTimes) = 1

\* C11: when the queue is empty at processQueue.shift(), runAll throws: no
\* 'start' is sent, no frame time is pushed for that frame, and after the
\* throw no frame is released and no frame time is recorded.
C11_FatalOnEmptyPool ==
    [][ /\ (pc \in {"warmup", "sleep"} /\ pc' /= pc /\ i' < frameCount
              /\ processQueue = << >>)
            => (pc' = "thrown" /\ sent' = sent /\ Len(frameTimes') = i')
        /\ pc = "thrown"
            => (pc' = "thrown" /\ sent' = sent /\ frameTimes' = frameTimes
                /\ worker' = worker) ]_vars

\* Frame 0 was played, the pool was emptied before frame 1, runAll threw.
C11_Witness ==
    /\ pc = "thrown"
    /\ i = 1
    /\ sent = << 0 >>
    /\ Len(frameTimes) = 1
    /\ frameCount > PoolCap

\* C12: when a fork throws, no forked worker is left waiting in the pool
\* once runAll has failed.
C12_LaunchFailureCleanup ==
    pc = "launchFailed" => \A f \in Frames : worker[f] /= "idle"

\* A 24-bit raster of width >= 1 and height >= 1 whose pixel data is exactly
\* height scan lines, each filled up to a multiple of 4 bytes.
ValidRaster(buf) ==
    /\ Len(buf) >= 54
    /\ Header(buf).bpp = 24
    /\ Header(buf).startingAddress = 54
    /\ Header(buf).widthInPixels >= 1
    /\ Header(buf).heightInPixels >= 1
    /\ Len(buf) = 54 + Header(buf).heightInPixels * Stride(Header(buf).widthInPixels)

\* floor((c0 + c1 + c2) / 3) of pixel x of scan line k of the file
SourcePixel(buf, k, x) ==
    LET o == 54 + k * Stride(Header(buf).widthInPixels) + 3 * x
    IN  (buf[o + 1] + buf[o + 2] + buf[o + 3]) \div 3

\* offsets of the filler bytes of the file
PaddingOffsets(buf) ==
    {o \in 54 .. (Len(buf) - 1) :
        (o - 54) % Stride(Header(buf).widthInPixels) >= 3 * Header(buf).widthInPixels}

\* the frame has every cell of its height x width matrix, and no more
FullFrame(frame, w, h) ==
    /\ ArrayLength(frame) = h
    /\ \A y \in 0 .. (h - 1) :
          /\ y \in DOMAIN frame
          /\ ArrayLength(frame[y]) = w
          /\ \A x \in 0 .. (w - 1) : x \in DOMAIN frame[y]

\* C13: the frame returned for a valid raster has height rows of width
\* populated cells, each in 0..255 and the floored mean of the three channel
\* bytes of its pixel.
C13_DecoderShapeAndRange ==
    rpc = "returned" =>
        \A k \in 1 .. Len(files) :
            LET buf == disk[files[k]]
                w   == Header(buf).widthInPixels
                h   == Header(buf).heightInPixels
            IN  ValidRaster(buf) =>
                  /\ FullFrame(frames[k], w, h)
                  /\ \A y \in 0 .. (h - 1), x \in 0 .. (w - 1) :
                        /\ frames[k][y][x] \in 0 .. 255
                        /\ frames[k][y][x] = SourcePixel(buf, h - 1 - y, x)

\* C14: for a valid raster whose scan lines end in filler bytes, every row
\* has width columns, every cell is the mean of its own pixel, and no filler
\* byte is read as a channel, in every row.
C14_PaddingSkip ==
    rpc = "returned" =>
        \A k \in 1 .. Len(files) :
            LET buf == disk[files[k]]
                w   == Header(buf).widthInPixels
                h   == Header(buf).heightInPixels
            IN  (ValidRaster(buf) /\ (3 * w) % 4 /= 0) =>
                  /\ \A y \in 0 .. (h - 1) :
                        /\ y \in DOMAIN frames[k]
                        /\ DOMAIN frames[k][y] = 0 .. (w - 1)
                        /\ \A x \in 0 .. (w - 1) :
                              frames[k][y][x] = SourcePixel(buf, h - 1 - y, x)
                  /\ Decode(buf).reads \cap PaddingOffsets(buf) = {}

\* C15: scan line s of the pixel data of a valid raster is row
\* height - 1 - s of the frame.
C15_RowInversion ==
    rpc = "returned" =>
        \A k \in 1 .. Len(files) :
            LET buf == disk[files[k]]
                w   == Header(buf).widthInPixels
                h   == Header(buf).heightInPixels
            IN  ValidRaster(buf) =>
                  \A s \in 0 .. (h - 1) :
                      /\ (h - 1 - s) \in DOMAIN frames[k]
                      /\ \A x \in 0 .. (w - 1) :
                            /\ x \in DOMAIN frames[k][h - 1 - s]
                            /\ frames[k][h - 1 - s][x] = SourcePixel(buf, s, x)

\* C16: after the sort the files stand in ascending order of the numeric
\* value of the key in their names, whatever order readdir gave them in.
C16_CatalogOrdering ==
    rpc /= "readdir" =>
        \A a, b \in 1 .. Len(files) :
            a < b <=> KeyOf(files[a]) < KeyOf(files[b])

\* C17: position k of what readFrames returns is the frame decoded from the
\* k-th file of the sorted list, in whatever order the tasks resolved.
C17_OrderPreserving ==
    /\ \A k \in 1 .. Len(fileContents) :
          fileContents[k].resolved => fileContents[k].file = files[k]
    /\ rpc = "returned" =>
          /\ Len(frames) = Len(files)
          /\ \A k \in 1 .. Len(files) :
                frames[k] = Decode(disk[files[k]]).frame

\* Three files whose tasks resolved last file first; their frames differ.
C17_Witness ==
    /\ rpc = "returned"
    /\ settled = << 3, 2, 1 >>
    /\ frames[1] /= frames[2]
    /\ frames[2] /= frames[3]
    /\ frames[1] /= frames[3]

\* bytes a file needs for the header fields read at offsets 10, 18, 22, 28
MinHeaderBytes == 28 + 2

\* C19: the task of a file shorter than the header fields neither resolves
\* with a frame nor loops.
C19_MalformedHeader ==
    \A k \in 1 .. Len(fileContents) :
        Len(disk[files[k]]) < MinHeaderBytes =>
            (~fileContents[k].resolved /\ rpc /= "hung")

\* A 24-bit raster with a whole header whose pixel data ends early.
CutPixelData(buf) ==
    /\ Len(buf) >= 54
    /\ Header(buf).bpp = 24
    /\ Header(buf).startingAddress = 54
    /\ Header(buf).widthInPixels >= 1
    /\ Header(buf).heightInPixels >= 1
    /\ Len(buf) < 54 + Header(buf).heightInPixels * Stride(Header(buf).widthInPixels)

\* C20: no frame with a missing row, a short row or an empty cell is
\* returned for a file whose pixel data ends early.
C20_IncompleteFrame ==
    rpc = "returned" =>
        \A k \in 1 .. Len(files) :
            CutPixelData(disk[files[k]]) =>
                FullFrame(frames[k], Header(disk[files[k]]).widthInPixels,
                          Header(disk[files[k]]).heightInPixels)

\* C18: the started worker prints exactly one line per frame row, top to
\* bottom in row order, the line of row r showing '$$' for each cell above
\* 127.5 and '__' for each other cell, for every frame index.
C18_WorkerOutput ==
    wpc = "traced" =>
        /\ Len(stackTrace) = ArrayLength(wfFrame)
        /\ \A r \in 1 .. Len(stackTrace) :
              /\ stackTrace[r].kind = "row"
              /\ stackTrace[r].name.cells = Markers(wfFrame[r - 1])


\* C21: if the worker of frame h never exits, no frame after h is ever
\* released, the pool is never replenished again once h is released, no
\* telemetry entry is recorded for h and runAll never returns: once h is
\* the active frame the scheduler's state stays as it is for ever.
C21_StallOnHang ==
    /\ [] ( hangs \in Frames =>
               /\ pc \notin {"done", "thrown", "launchFailed"}
               /\ \A k \in 1 .. Len(sent) : sent[k] <= hangs
               /\ Len(frameTimes) <= hangs
               /\ \A k \in 1 .. Len(spawned) : spawned[k] < hangs + queueSize
               /\ worker[hangs] \in {"none", "idle", "started"} )
    /\ [][ (hangs \in Frames /\ pc = "awaitExit" /\ child = hangs) =>
               /\ pc' = "awaitExit"
               /\ i' = i
               /\ child' = child
               /\ sent' = sent
               /\ processQueue' = processQueue
               /\ spawned' = spawned
               /\ frameTimes' = frameTimes
               /\ timerDelay' = timerDelay
               /\ totalTime' = totalTime ]_vars

\* The scheduler waits for the exit of a worker that never terminates, with
\* earlier frames played and later workers still waiting in the pool.
C21_Witness ==
    /\ hangs \in Frames
    /\ hangs >= 1
    /\ pc = "awaitExit"
    /\ child = hangs
    /\ worker[hangs] = "started"
    /\ Len(frameTimes) = hangs
    /\ processQueue /= << >>
    /\ \A f \in Frames : pending[f] = 0

\* C22: when every fork succeeds the pool is non-empty at every dequeue, so
\* runAll never throws 'Child pool empty'; with zero frames no dequeue is
\* attempted at all.
C22_PoolNeverEmpty ==
    /\ pc /= "thrown"
    /\ (pc = "warmup" /\ frameCount > 0) => processQueue /= << >>
    /\ (pc = "sleep" /\ i + 1 < frameCount) => processQueue /= << >>
    /\ pc = "awaitExit" => child \in Frames /\ child = i
    /\ frameCount = 0 => sent = << >> /\ child = -1 /\ processQueue = << >>

\* The last dequeue of a run longer than the pool: it took the only worker
\* left and found it.
C22_Witness ==
    /\ frameCount > PoolCap
    /\ pc = "awaitExit"
    /\ i = frameCount - 1
    /\ child = frameCount - 1
    /\ processQueue = << >>
    /\ Len(sent) = frameCount

\* Workers forked and not yet seen to exit: waiting in the pool or released.
Alive == {f \in Frames : worker[f] \in {"idle", "started", "dead"}}

\* C23: while frame i is active the pool holds exactly the workers of
\* frames i+1 .. min(i + capacity - 1, frameCount - 1), in ascending order
\* with no gap and no duplicate; the workers forked and not yet completed,
\* queued plus active, are never more than capacity.
C23_PoolContents ==
    /\ pc = "awaitExit" =>
          /\ processQueue = Range(i + 1, Min(i + Capacity, frameCount))
          /\ \A f \in Frames : worker[f] = "idle" <=>
                                  \E k \in 1 .. Len(processQueue) : processQueue[k] = f
    /\ Cardinality(Alive) <= Capacity

\* Frame 1 of 12 is active: the pool holds workers 2 .. 10, and with the
\* active one that makes capacity.
C23_Witness ==
    /\ frameCount = 12
    /\ pc = "awaitExit"
    /\ i = 1
    /\ processQueue = << 2, 3, 4, 5, 6, 7, 8, 9, 10 >>
    /\ Cardinality(Alive) = PoolCap

\* C24: when runAll returns, exactly frameCount workers were forked over the
\* run, one per frame index and none twice, every one of them was released
\* and has exited, and the pool is empty.
C24_NoOrphans ==
    pc = "done" =>
        /\ spawned = Range(0, frameCount)
        /\ sent = Range(0, frameCount)
        /\ \A f \in Frames : worker[f] = "exited"
        /\ Alive = {}
        /\ processQueue = << >>

\* runAll has returned from a run of more frames than the pool holds, with
\* the forks of the exit listeners among the spawned.
C24_Witness ==
    /\ pc = "done"
    /\ frameCount = PoolCap + 2
    /\ Len(spawned) = frameCount
    /\ spawned[frameCount] = frameCount - 1
    /\ processQueue = << >>
    /\ worker[frameCount - 1] = "exited"

\* Workers whose exit the scheduler has handled.
Exited == {f \in Frames : worker[f] = "exited"}

\* C25: the 'exit' listener of a worker is registered in the step that sends
\* it 'start', so no released worker can exit unobserved; every exit is
\* handled exactly once, and handling it makes at most one fork, one
\* telemetry entry and one pacing timer, after which the loop moves on by
\* exactly one frame.
C25_ExitCountedOnce ==
    /\ [] ( /\ \A k \in 1 .. Len(sent) : sent[k] \in listening
            /\ \A f \in Frames : worker[f] \in {"started", "dead", "exited"} =>
                                     f \in listening
            /\ pc = "awaitExit" => Exited = 0 .. (i - 1) /\ Len(frameTimes) = i
            /\ pc = "sleep" => Exited = 0 .. i /\ Len(frameTimes) = i + 1
            /\ pc = "done" => Exited = Frames /\ Len(frameTimes) = frameCount )
    /\ [][ /\ sent' /= sent =>
                 /\ sent' = Append(sent, child')
                 /\ child' \in listening'
                 /\ worker'[child'] = "started"
           /\ Exited' /= Exited =>
                 /\ Exited' = Exited \cup {child}
                 /\ child \notin Exited
                 /\ pc = "awaitExit" /\ pc' = "sleep"
                 /\ Len(frameTimes') = Len(frameTimes) + 1
                 /\ Len(spawned') \in {Len(spawned), Len(spawned) + 1}
                 /\ Len(processQueue') = Len(processQueue) + Len(spawned') - Len(spawned)
                 /\ timerDelay' = Pause(millisBetweenFrames, Last(frameTimes'))
                 /\ i' = i
           /\ pc = "sleep" /\ pc' /= "sleep" =>
                 \/ pc' = "awaitExit" /\ i' = i + 1 /\ child' = i + 1
                 \/ pc' = "done" /\ i + 1 = frameCount
           /\ i' /= i => pc = "sleep" /\ i' = i + 1
           /\ frameTimes' /= frameTimes => Exited' /= Exited \/ pc = "warmup"
         ]_vars

\* Two frames played: two exits handled, two telemetry entries, two forks by
\* the exit listeners, the second pacing timer set.
C25_Witness ==
    /\ pc = "sleep"
    /\ i = 1
    /\ frameCount > PoolCap + 1
    /\ listening = {0, 1}
    /\ Exited = {0, 1}
    /\ Len(frameTimes) = 2
    /\ Len(spawned) = PoolCap + 2

\* C26: for each frame the console.clear() set off by the first chunk of the
\* worker's stderr runs before that chunk is written to the console, and so
\* before every later chunk of the frame: a forwarded chunk is on the console
\* after the step that forwards it, and the clear of a frame finds none of
\* that frame's output to erase.
C26_ClearPrecedesOutput ==
    /\ [] ( \A f \in Frames : f \in console => clears[f] = 1 /\ Got(f) > 0 )
    /\ [][ \A f \in Frames :
             /\ pending'[f] < pending[f] => f \in console'
             /\ clears'[f] /= clears[f] =>
                   /\ pending'[f] < pending[f]
                   /\ Got(f) = 0
                   /\ f \notin console
                   /\ console' = {f}
             /\ (f \in console /\ f \notin console') =>
                   \E g \in Frames : g /= f /\ clears'[g] /= clears[g] ]_vars

\* Both chunks of a frame's stack trace are on the console after its one
\* clear.
C26_Witness ==
    \E f \in Frames :
        /\ f >= 1
        /\ runChunks = 2
        /\ Got(f) = 2
        /\ clears[f] = 1
        /\ console = {f}

\* The header gives a width of at least one pixel and 24 bits per pixel.
WalkPremise(buf) ==
    /\ Len(buf) >= MinHeaderBytes
    /\ Header(buf).widthInPixels >= 1
    /\ Header(buf).bpp = 24

\* What an iteration of the while loop at byteIndex adds to byteIndex.
Advance(buf, byteIndex) ==
    LET hd       == Header(buf)
        rowBytes == DataBytesInRow(hd) + PaddingBytesInRow(hd)
        rel      == byteIndex - hd.startingAddress
    IN  IF rowBytes /= 0 /\ 3 * hd.widthInPixels > rel % rowBytes
          THEN BytesPerPixel(hd)
          ELSE PaddingBytesInRow(hd)

\* C27: for every buffer whose header gives width >= 1 and 24 bits per
\* pixel the while loop from the starting address to the end of the buffer
\* terminates, every iteration moving byteIndex forward by at least one
\* byte; readFrames hangs only on a file outside that premise.
C27_DecoderTerminates ==
    /\ \A name \in DOMAIN disk :
          WalkPremise(disk[name]) =>
              /\ Decode(disk[name]).outcome = "frame"
              /\ \A b \in Header(disk[name]).startingAddress .. (Len(disk[name]) - 1) :
                    Advance(disk[name], b) >= 1
    /\ rpc = "hung" => \E name \in DOMAIN disk : ~WalkPremise(disk[name])
    /\ \A k \in 1 .. Len(files) :
          (\E m \in 1 .. Len(settled) : settled[m] = k) => fileContents[k].resolved

\* readFrames has returned the frame of a file of three scan lines of five
\* pixels, each line followed by filler bytes the walk stepped over.
C27_Witness ==
    /\ rpc = "returned"
    /\ Len(files) = 1
    /\ ValidRaster(disk[files[1]])
    /\ Header(disk[files[1]]).widthInPixels = 5
    /\ Header(disk[files[1]]).heightInPixels = 3
    /\ PaddingBytesInRow(Header(disk[files[1]])) = 3
    /\ ArrayLength(frames[1]) = 3

====
